---- MODULE Spec2Model ----
(***************************************************************************)
(* PageBolt MCP server (src/src/index.mjs): eight tool handlers, three     *)
(* prompts and one resource in front of the PageBolt HTTP API.             *)
(*                                                                         *)
(* An invocation is a handler run.  Its steps are the code between two     *)
(* await points: Invoke runs the handler up to `await fetch`, Respond is   *)
(* the settling of fetch, ErrJson / Json are the settling of               *)
(* `await res.json()` followed by the rest of the handler.  Invocations    *)
(* interleave at these points only (one JavaScript thread).                *)
(*                                                                         *)
(* Strings are modelled as sequences of parts, concatenation as \o, and    *)
(* "text contains m" as "m is a part of text".  A path string is the       *)
(* sequence of its segments, an absolute path starting with the part "/".  *)
(* Paths follow POSIX rules and are resolved lexically, as node:path does. *)
(***************************************************************************)
EXTENDS Integers, Sequences, FiniteSets, TLC

VARIABLES
  PAGEBOLT_BASE_URL,  \* process.env.PAGEBOLT_BASE_URL at module load
  API_KEY,    \* const API_KEY = process.env.PAGEBOLT_API_KEY
  BASE_URL,   \* const BASE_URL
  cwd,        \* process.cwd()
  tools,      \* names registered by registerTools
  prompts,    \* names registered by registerPrompts
  resources,  \* uris registered by registerResources
  fs,         \* files on disk: set of [path, data]
  inv         \* the invocations, by id

vars == <<PAGEBOLT_BASE_URL, API_KEY, BASE_URL, cwd, tools, prompts, resources, fs, inv>>

(* ---------------------------- bounds ----------------------------------- *)
MaxPathLen == 2    \* segments in a saveTo path
MaxSteps == 2      \* steps in a steps array

\* the invocations of one behaviour; they may overlap
Invocations == {1, 2}

(* ------------------------- JavaScript values --------------------------- *)
Undefined == "undefined"

\* !v for an optional string: undefined and '' are falsy
Truthy(v) == v \notin {Undefined, ""}

Range(s) == {s[k] : k \in 1..Len(s)}

Contains(text, part) == part \in Range(text)

\* sub occurs in text as a run of consecutive parts
ContainsSeq(text, sub) ==
  \E k \in 0..(Len(text) - Len(sub)) : SubSeq(text, k + 1, k + Len(sub)) = sub

(* ------------------------------ paths ---------------------------------- *)
Root == <<"/">>

isAbsolute(p) == p # <<>> /\ p[1] = "/"

RECURSIVE NormalizeFrom(_, _)
\* node:path normalizeString: '.' is dropped, '..' removes the last segment
\* (and is dropped at the root)
NormalizeFrom(acc, segs) ==
  IF segs = <<>> THEN acc
  ELSE LET s == Head(segs) IN
       NormalizeFrom(
         IF s = "." THEN acc
         ELSE IF s = ".."
              THEN (IF acc = <<>> THEN acc ELSE SubSeq(acc, 1, Len(acc) - 1))
              ELSE Append(acc, s),
         Tail(segs))

\* path.resolve(p): an absolute, normalized path; relative p is taken from dir
resolve(dir, p) ==
  IF isAbsolute(p) THEN Root \o NormalizeFrom(<<>>, Tail(p))
  ELSE Root \o NormalizeFrom(Tail(dir), p)

CommonLen(a, b) ==
  LET m == IF Len(a) < Len(b) THEN Len(a) ELSE Len(b)
      S == {k \in 0..m : SubSeq(a, 1, k) = SubSeq(b, 1, k)}
  IN CHOOSE k \in S : \A j \in S : j <= k

\* path.relative(from, to) for two absolute normalized paths
relative(from, to) ==
  LET c == CommonLen(from, to)
  IN [k \in 1..(Len(from) - c) |-> ".."] \o SubSeq(to, c + 1, Len(to))

\* file names of the model that begin with the two characters '..'
DotDotNames == {"..", "..x"}

\* rel.startsWith('..'): rel is the segments joined by '/'
startsWithDotDot(rel) == rel # <<>> /\ rel[1] \in DotDotNames

\* a variant of the check that tests only isAbsolute(rel)
safePathRejectsMut(rel) == isAbsolute(rel)

safePathRejects(rel) == isAbsolute(rel) \/ startsWithDotDot(rel)

safePath(dir, userPath, defaultName) ==
  LET resolved == resolve(dir, IF userPath.given /\ userPath.path # <<>>
                               THEN userPath.path ELSE defaultName)
      rel == relative(dir, resolved)
  IN [ok |-> ~safePathRejects(rel), path |-> resolved]

\* the location is the working directory or below it
InsideCwd(dir, p) == Len(p) >= Len(dir) /\ SubSeq(p, 1, Len(dir)) = dir

(* ------------------------ server construction -------------------------- *)
ToolNames == {"take_screenshot", "generate_pdf", "create_og_image", "run_sequence",
              "record_video", "inspect_page", "list_devices", "check_usage"}

PromptNames == {"capture-page", "record-demo", "audit-page"}

ResourceUris == {"pagebolt://api-docs"}

\* registerTools(srv): the names passed to server.tool; no branch reads API_KEY
registerToolsMut == IF API_KEY \in {"undefined", ""} THEN {} ELSE ToolNames

registerTools == ToolNames

registerPrompts == PromptNames

registerResources == ResourceUris

\* createConfiguredServer(): a new server with the three registrations
createConfiguredServer ==
  [tools |-> registerTools, prompts |-> registerPrompts, resources |-> registerResources]

\* createSandboxServer(): return createConfiguredServer()
createSandboxServer == createConfiguredServer

\* a URL prefix is the sequence of its parts; a trailing '/' is a part of its own
DefaultBaseUrl == <<"https://pagebolt.dev">>

\* the values of process.env.PAGEBOLT_BASE_URL of the model; <<>> is unset (or '')
EnvBaseUrls == {<<>>, <<"https://api.test", "/", "/">>}

\* a variant that removes every trailing '/'
baseUrlOfMut(env) ==
  LET u == IF env = <<>> THEN DefaultBaseUrl ELSE env
  IN SelectSeq(u, LAMBDA part : part # "/")

\* (env || 'https://pagebolt.dev').replace(/\/$/, ''): one trailing '/' is removed
baseUrlOf(env) ==
  LET u == IF env = <<>> THEN DefaultBaseUrl ELSE env
  IN IF u[Len(u)] = "/" THEN SubSeq(u, 1, Len(u) - 1) ELSE u

\* the values of process.env.PAGEBOLT_API_KEY of the model
EnvApiKeys == {Undefined, "", "pf_live_k"}

Cwds == {<<"/", "w">>}

(* --------------------------- tool table -------------------------------- *)
\* the endpoint literal each handler passes to callApi
Endpoint(tool) ==
  CASE tool = "take_screenshot" -> "/api/v1/screenshot"
    [] tool = "generate_pdf"    -> "/api/v1/pdf"
    [] tool = "create_og_image" -> "/api/v1/og-image"
    [] tool = "run_sequence"    -> "/api/v1/sequence"
    [] tool = "record_video"    -> "/api/v1/video"
    [] tool = "inspect_page"    -> "/api/v1/inspect"
    [] tool = "list_devices"    -> "/api/v1/devices"
    [] tool = "check_usage"     -> "/api/v1/usage"

\* options.method || 'GET': list_devices and check_usage pass no options
Method(tool) == IF tool \in {"list_devices", "check_usage"} THEN "GET" ELSE "POST"

\* the handlers whose callApi call sits inside try { } catch (err) { }
Catches(tool) == tool \in {"run_sequence", "record_video", "inspect_page"}

CatchPrefix(tool) ==
  CASE tool = "run_sequence" -> "Sequence error: "
    [] tool = "record_video" -> "Video recording error: "
    [] tool = "inspect_page" -> "Inspect error: "
    [] OTHER -> ""

\* the handlers that write the payload to disk
WritesFileMut(tool) == tool \in {"generate_pdf", "record_video", "take_screenshot"}

WritesFile(tool) == tool \in {"generate_pdf", "record_video"}

(* ----------------------------- inputs ---------------------------------- *)
OptStrings == {Undefined, "", "v"}

Segments == {"..", "x"}

\* further saveTo strings: a name that begins with two dots, a leading './'
ExtraPaths == {<<"..x">>, <<".", "x">>}

RECURSIVE SegSeqs(_)
SegSeqs(n) ==
  IF n = 0 THEN {<<>>}
  ELSE SegSeqs(n - 1) \cup {Append(q, g) : q \in SegSeqs(n - 1), g \in Segments}

\* saveTo: absent, or a string of at most MaxPathLen segments, relative or absolute
NoSaveTo == [given |-> FALSE, path |-> <<>>]

SaveTos ==
  {NoSaveTo} \cup
  {[given |-> TRUE, path |-> q] : q \in SegSeqs(MaxPathLen)} \cup
  {[given |-> TRUE, path |-> Root \o q] : q \in SegSeqs(MaxPathLen)} \cup
  {[given |-> TRUE, path |-> q] : q \in ExtraPaths}

\* steps: absent, or an array of steps, each given by its action.  "click" stands
\* for the ten interaction actions, "screenshot" and "pdf" are the output actions.
StepActions == {"click", "screenshot"}

\* further steps arrays: a pdf step
ExtraStepLists == {<<"pdf">>, <<"click", "pdf">>}

RECURSIVE StepLists(_)
StepLists(n) ==
  IF n = 0 THEN {<<>>}
  ELSE StepLists(n - 1) \cup {Append(q, a) : q \in StepLists(n - 1), a \in StepActions}

NoSteps == [given |-> FALSE, list |-> <<>>]

\* z.array(...).max(20) of run_sequence, .max(50) of record_video
MaxSequenceSteps == 20

MaxVideoSteps == 50

\* arrays at and just above the two limits
LongStepLists ==
  {[k \in 1..n |-> "click"] :
     n \in {MaxSequenceSteps, MaxSequenceSteps + 1, MaxVideoSteps, MaxVideoSteps + 1}}

StepArrays ==
  {NoSteps} \cup
  {[given |-> TRUE, list |-> q] :
     q \in StepLists(MaxSteps) \cup ExtraStepLists \cup LongStepLists}

\* the saveTo values that make safePath take the default name
DefaultSaveTos == {t \in SaveTos : ~t.given \/ t.path = <<>>}

NoParams ==
  [url |-> Undefined, html |-> Undefined, markdown |-> Undefined,
   format |-> Undefined, saveTo |-> NoSaveTo, steps |-> NoSteps]

\* the parameter objects a handler is called with, by the fields the handlers
\* branch on (the image format of take_screenshot and create_og_image only picks
\* the MIME type).  A handler reads its fields independently of each other:
\* the model varies the fields of the opening check with the others at their
\* default, and the output path and format with the opening check passed.
ValidSteps == [given |-> TRUE, list |-> <<"click">>]

ParamsOf(tool) ==
  CASE tool = "take_screenshot" ->
         {[NoParams EXCEPT !.url = u, !.html = h, !.markdown = m] :
            u \in {Undefined, "v"}, h \in OptStrings, m \in {Undefined, "v"}}
    [] tool = "generate_pdf" ->
         {[NoParams EXCEPT !.url = u, !.html = h] :
            u \in {Undefined, "v"}, h \in OptStrings} \cup
         {[NoParams EXCEPT !.url = "v", !.saveTo = t] : t \in SaveTos}
    [] tool = "run_sequence" ->
         {[NoParams EXCEPT !.steps = n] : n \in StepArrays}
    [] tool = "record_video" ->
         {[NoParams EXCEPT !.steps = n] : n \in StepArrays} \cup
         {[NoParams EXCEPT !.steps = ValidSteps, !.saveTo = t] : t \in SaveTos} \cup
         {[NoParams EXCEPT !.steps = ValidSteps, !.format = f, !.saveTo = t] :
            f \in {"mp4", "gif", "webm", "../x"}, t \in DefaultSaveTos}
    [] tool = "inspect_page" ->
         {[NoParams EXCEPT !.url = u, !.html = h] :
            u \in {Undefined, "v"}, h \in OptStrings}
    [] OTHER -> {NoParams}

(* ----------------------------- results --------------------------------- *)
NoNum == [unit |-> "none", value |-> 0]

NoFile == [saved |-> FALSE, path |-> <<>>]

\* what a handler run ends with: kind "return" is the returned object, kind
\* "throw" a rejected promise whose Error has the message `text`
Result(kind, isError, text) ==
  [kind |-> kind, isError |-> isError, text |-> text,
   size |-> NoNum, duration |-> NoNum, file |-> NoFile, data |-> "none"]

NoResult == Result("none", FALSE, <<>>)

NoRequest ==
  [origin |-> "none", url |-> <<>>, method |-> "none", apiKey |-> Undefined,
   contentType |-> FALSE]

NoRes == [status |-> 0, statusText |-> "", ok |-> FALSE]

\* no body read yet (these two hold what `await res.json()` gave)
NoBody == [text |-> "", parses |-> FALSE, isNull |-> FALSE, error |-> Undefined]

NoData == [data |-> "none", size_bytes |-> 0, duration_ms |-> 0, step_results |-> <<>>]

\* an invocation: where the handler stands (pc), the locals it still reads (format,
\* saveTo, steps), what it got from the backend (res; body of a failed, data of a 2xx
\* response), the exception its disk catch swallowed (diskErr: "none", "safePath"
\* or "write"), the requests it issued and the last of them, and its outcome
Idle ==
  [pc |-> "idle", tool |-> "none", format |-> Undefined, saveTo |-> NoSaveTo,
   steps |-> NoSteps, requests |-> 0, request |-> NoRequest, res |-> NoRes, body |-> NoBody,
   data |-> NoData, diskErr |-> "none", result |-> NoResult]

(* ------------------------- handler building blocks --------------------- *)
Return(isError, text) == Result("return", isError, text)

Throw(message) == Result("throw", FALSE, message)

\* an exception with this message reaches the handler's frame: the handlers with a
\* try/catch return a failure result, the others let it escape
Failure(tool, message) ==
  IF Catches(tool) THEN Return(TRUE, <<CatchPrefix(tool)>> \o message)
  ELSE Throw(message)

\* the handler's promise settles; its locals go out of scope
Finish(r, result) ==
  [r EXCEPT !.pc = "done", !.result = result, !.format = Undefined, !.saveTo = NoSaveTo,
            !.steps = NoSteps]

\* the presence checks that open the handlers: the text of the failure, <<>> if none
LocalErrorMut(tool, p) ==
  CASE tool = "take_screenshot" ->
         IF ~Truthy(p.url) /\ ~Truthy(p.html) /\ ~Truthy(p.markdown)
         THEN <<"Error: One of \"url\", \"html\", or \"markdown\" is required.">>
         ELSE <<>>
    [] tool = "generate_pdf" ->
         IF ~Truthy(p.url) /\ ~Truthy(p.html)
         THEN <<"Error: Either \"url\" or \"html\" is required.">>
         ELSE <<>>
    [] tool \in {"run_sequence", "record_video"} ->
         IF ~p.steps.given \/ Len(p.steps.list) = 0
         THEN <<"Error: \"steps\" must be a non-empty array.">>
         ELSE <<>>
    [] OTHER -> <<>>

LocalError(tool, p) ==
  CASE tool = "take_screenshot" ->
         IF ~Truthy(p.url) /\ ~Truthy(p.html) /\ ~Truthy(p.markdown)
         THEN <<"Error: One of \"url\", \"html\", or \"markdown\" is required.">>
         ELSE <<>>
    [] tool \in {"generate_pdf", "inspect_page"} ->
         IF ~Truthy(p.url) /\ ~Truthy(p.html)
         THEN <<"Error: Either \"url\" or \"html\" is required.">>
         ELSE <<>>
    [] tool \in {"run_sequence", "record_video"} ->
         IF ~p.steps.given \/ Len(p.steps.list) = 0
         THEN <<"Error: \"steps\" must be a non-empty array.">>
         ELSE <<>>
    [] OTHER -> <<>>

\* the action enum of the steps schema of a tool
stepActionsMut(tool) == {"click", "screenshot", "pdf"}

stepActions(tool) ==
  IF tool = "run_sequence" THEN {"click", "screenshot", "pdf"} ELSE {"click"}

\* .min(1).max(n) of the steps schema of a tool
maxStepsMut(tool) == MaxVideoSteps + 1

maxSteps(tool) == IF tool = "run_sequence" THEN MaxSequenceSteps ELSE MaxVideoSteps

\* z.enum(['mp4', 'webm', 'gif']).optional()
VideoFormats == {"mp4", "webm", "gif"}

\* the input schema passed to server.tool, by the fields the model follows: the
\* issues that parsing the arguments against it raises, by field
stepsIssues(tool, p) ==
  IF tool \notin {"run_sequence", "record_video"} THEN <<>>
  ELSE IF ~p.steps.given THEN <<"steps: required">>
  ELSE IF Len(p.steps.list) < 1 THEN <<"steps: too small">>
  ELSE IF Len(p.steps.list) > maxSteps(tool) THEN <<"steps: too big">>
  ELSE IF \E k \in 1..Len(p.steps.list) : p.steps.list[k] \notin stepActions(tool)
  THEN <<"steps.action: invalid enum value">>
  ELSE <<>>

formatIssues(tool, p) ==
  IF tool = "record_video" /\ p.format \notin {Undefined} \cup VideoFormats
  THEN <<"format: invalid enum value">>
  ELSE <<>>

schemaIssues(tool, p) == stepsIssues(tool, p) \o formatIssues(tool, p)

\* the server calls the handler only when the arguments conform
schemaAccepts(tool, p) == schemaIssues(tool, p) = <<>>

\* the arguments do not conform: the call ends without the handler having run
Rejected(tool, p) ==
  Result("rejected", TRUE, <<"Invalid arguments for tool ", tool, ": ">> \o schemaIssues(tool, p))

KeyRequiredMsg ==
  <<"PAGEBOLT_API_KEY environment variable is required. ",
    "Get your free API key at https://pagebolt.dev">>

\* requireApiKey(): TRUE when it throws
requireApiKeyThrowsMut(key) == FALSE

requireApiKeyThrows(key) == ~Truthy(key)

\* the headers object of callApi, by the two headers the model follows
HeadersMut(key, hasBody) == [apiKey |-> Undefined, contentType |-> hasBody]

Headers(key, hasBody) == [apiKey |-> key, contentType |-> hasBody]

\* callApi(endpoint, options) up to `await fetch(url, ...)`
callApiRequest(tool) ==
  LET h == Headers(API_KEY, Method(tool) = "POST")
  IN [origin |-> "tool", url |-> BASE_URL \o <<Endpoint(tool)>>, method |-> Method(tool),
      apiKey |-> h.apiKey, contentType |-> h.contentType]

\* a tools/call request: the schema check, then the handler from its first line
\* to its first await
StartTool(r, tool, p) ==
  LET r1 == [r EXCEPT !.tool = tool, !.format = p.format, !.saveTo = p.saveTo,
                      !.steps = p.steps] IN
  IF ~schemaAccepts(tool, p) THEN Finish(r1, Rejected(tool, p))
  ELSE IF LocalError(tool, p) # <<>> THEN Finish(r1, Return(TRUE, LocalError(tool, p)))
  ELSE IF requireApiKeyThrows(API_KEY) THEN Finish(r1, Failure(tool, KeyRequiredMsg))
  ELSE [r1 EXCEPT !.pc = "fetch", !.requests = @ + 1, !.request = callApiRequest(tool)]

(* ------------------------------ backend -------------------------------- *)
Statuses == {200, 404, 500}

StatusText(status) ==
  CASE status = 200 -> "OK"
    [] status = 404 -> "Not Found"
    [] status = 500 -> "Internal Server Error"

\* Response.ok
Ok(status) == 200 <= status /\ status <= 299

Response(status) ==
  [status |-> status, statusText |-> StatusText(status), ok |-> Ok(status)]

\* bodies of a non-2xx response: the raw text, whether JSON.parse accepts it, whether
\* it parses to null, and String(errJson.error) (Undefined when there is no such field)
NotJsonBody ==
  [text |-> "<html>Bad Gateway</html>", parses |-> FALSE, isNull |-> FALSE, error |-> Undefined]

ErrorBodies ==
  {[text |-> "<html>Bad Gateway</html>", parses |-> FALSE, isNull |-> FALSE, error |-> Undefined],
   [text |-> "null", parses |-> TRUE, isNull |-> TRUE, error |-> Undefined],
   [text |-> "{\"message\":\"down\"}", parses |-> TRUE, isNull |-> FALSE, error |-> Undefined],
   [text |-> "{\"error\":\"\"}", parses |-> TRUE, isNull |-> FALSE, error |-> ""],
   [text |-> "{\"error\":\"quota exceeded\"}", parses |-> TRUE, isNull |-> FALSE,
    error |-> "quota exceeded"]}

\* the bodies the backend of the model sends with a status
BodiesOf(status) == IF status = 500 THEN ErrorBodies ELSE {NotJsonBody}

HttpLine(res) == <<"HTTP ", ToString(res.status), " ", res.statusText>>

\* the try/catch of callApi: res.json() rejects on a body that is not JSON, and
\* errJson.error throws on null; both land in the catch
errorMsgMut(res, body) ==
  IF ~body.parses \/ body.isNull THEN HttpLine(res)
  ELSE <<body.error>>

errorMsg(res, body) ==
  IF ~body.parses \/ body.isNull THEN HttpLine(res)
  ELSE IF Truthy(body.error) THEN <<body.error>>
  ELSE <<body.text>>

\* throw new Error(`PageBolt API error: ${errorMsg}`)
apiErrorMessage(res, body) == <<"PageBolt API error: ">> \o errorMsg(res, body)

\* the fields of a 2xx JSON body that the handlers read; data is base64 text
Datas ==
  {[data |-> "QQ==", size_bytes |-> 0, duration_ms |-> 49, step_results |-> <<>>],
   [data |-> "Qg==", size_bytes |-> 52, duration_ms |-> 150, step_results |-> <<>>],
   [data |-> "Qw==", size_bytes |-> 1536, duration_ms |-> 1234, step_results |-> <<>>]}

\* an entry of data.step_results of /api/v1/sequence
StepResult(index, status) ==
  [step_index |-> index, action |-> "click", status |-> status,
   error |-> IF status = "error" THEN "boom" ELSE Undefined]

\* the 2xx bodies of /api/v1/sequence, by step_results: at most MaxSteps entries
\* in ascending step_index, and one with two failed steps in descending
\* step_index; the envelope has no data field
SequenceDatas ==
  {[NoData EXCEPT !.data = Undefined, !.step_results =
      [k \in 1..n |-> StepResult(k - 1, st[k])]] :
     n \in 0..MaxSteps, st \in [1..MaxSteps -> {"success", "error"}]} \cup
  {[NoData EXCEPT !.data = Undefined, !.step_results =
      <<StepResult(2, "error"), StepResult(1, "success"), StepResult(0, "error")>>]}

DatasOf(tool) == IF tool = "run_sequence" THEN SequenceDatas ELSE Datas

\* x.toFixed(1) for x = num / den, in tenths: the integers n with n / 10 nearest to x
toFixed1(num, den) ==
  LET q == (num * 10) \div den
      m == (num * 10) % den
  IN IF 2 * m < den THEN {q} ELSE IF 2 * m > den THEN {q + 1} ELSE {q, q + 1}

Max(S) == CHOOSE x \in S : \A y \in S : y <= x

\* (data.size_bytes / 1024).toFixed(1): the quotient is exact in binary, and of two
\* nearest values toFixed takes the larger
sizeKB(size_bytes) == Max(toFixed1(size_bytes, 1024))

\* (data.duration_ms / 1000).toFixed(1): the quotient is rounded to a double first,
\* so a decimal tie falls to either side
durationSec(duration_ms) == toFixed1(duration_ms, 1000)

(* ------------------------------- disk ---------------------------------- *)
IsPrefix(a, b) == Len(a) <= Len(b) /\ SubSeq(b, 1, Len(a)) = a

\* writeFileSync(path, buffer) can succeed: path is not the working directory, not a
\* directory that holds a file, and no file stands where path needs a directory
canWrite(files, dir, path) ==
  /\ ~IsPrefix(path, dir)
  /\ \A f \in files : f.path = path \/ (~IsPrefix(f.path, path) /\ ~IsPrefix(path, f.path))

\* writeFileSync(path, buffer): creates the file or replaces its content
writeFileSyncMut(files, path, data) == files \cup {[path |-> path, data |-> data]}

writeFileSync(files, path, data) ==
  {f \in files : f.path # path} \cup {[path |-> path, data |-> data]}

\* params.format || 'mp4'
videoFormat(format) == IF Truthy(format) THEN format ELSE "mp4"

\* a variant that ignores the format
defaultNameMut(tool, format) ==
  IF tool = "generate_pdf" THEN <<".", "output.pdf">> ELSE <<".", "recording.mp4">>

\* the default file name of a handler that saves: './output.pdf', `./recording.${ext}`
defaultName(tool, format) ==
  IF tool = "generate_pdf" THEN <<".", "output.pdf">>
  ELSE IF videoFormat(format) = "gif" THEN <<".", "recording.gif">>
  ELSE IF videoFormat(format) = "webm" THEN <<".", "recording.webm">>
  ELSE <<".", "recording.mp4">>

\* the best-effort save: try { safePath; writeFileSync; savedPath = outputPath }
\* catch {}.  diskOk is whether the file system accepts the write.
saveTarget(r) == safePath(cwd, r.saveTo, defaultName(r.tool, r.format))

diskErr(r, diskOk) ==
  IF ~WritesFile(r.tool) THEN "none"
  ELSE IF ~saveTarget(r).ok THEN "safePath"
  ELSE IF ~(diskOk /\ canWrite(fs, cwd, saveTarget(r).path)) THEN "write"
  ELSE "none"

\* a variant that sets savedPath before the write
savedMut(r, diskOk) == WritesFile(r.tool) /\ diskErr(r, diskOk) # "safePath"

\* savedPath is set
saved(r, diskOk) == WritesFile(r.tool) /\ diskErr(r, diskOk) = "none"

(* ------------------------- successful results -------------------------- *)
Bytes(n) == [unit |-> "bytes", value |-> n]

Ms(n) == [unit |-> "ms", value |-> n]

\* the size and duration the result text states, with their units
reportedSizeMut(tool, d) == [unit |-> "KB/10", value |-> sizeKB(d.size_bytes)]

reportedSize(tool, d) ==
  IF tool = "record_video" THEN [unit |-> "KB/10", value |-> sizeKB(d.size_bytes)]
  ELSE IF tool \in {"take_screenshot", "generate_pdf", "create_og_image"}
  THEN Bytes(d.size_bytes)
  ELSE NoNum

reportedDurations(tool, d) ==
  IF tool = "record_video"
  THEN {[unit |-> "s/10", value |-> v] : v \in durationSec(d.duration_ms)}
  ELSE IF tool \in {"take_screenshot", "generate_pdf", "create_og_image", "inspect_page"}
  THEN {Ms(d.duration_ms)}
  ELSE {NoNum}

SuccessText(tool) ==
  CASE tool = "take_screenshot" -> <<"Screenshot captured successfully.">>
    [] tool = "generate_pdf"    -> <<"PDF generated successfully.">>
    [] tool = "create_og_image" -> <<"OG image created successfully.">>
    [] tool = "run_sequence"    -> <<"Sequence complete: ">>
    [] tool = "record_video"    -> <<"Video recorded successfully.">>
    [] tool = "inspect_page"    -> <<"Page: ">>
    [] tool = "list_devices"    -> <<"Available device presets">>
    [] tool = "check_usage"     -> <<"PageBolt Usage">>

\* data.step_results.filter(s => s.status === 'error')
failedStepsMut(d) == d.step_results

failedSteps(d) == SelectSeq(d.step_results, LAMBDA s : s.status = "error")

\* `Step ${s.step_index} (${s.action}): ${s.error}`
stepLine(s) ==
  "Step " \o ToString(s.step_index) \o " (" \o s.action \o "): " \o s.error

RECURSIVE join(_, _)
\* lines.join(sep)
join(lines, sep) ==
  IF lines = <<>> THEN <<>>
  ELSE IF Len(lines) = 1 THEN <<lines[1]>>
  ELSE <<lines[1], sep>> \o join(Tail(lines), sep)

\* the summary of run_sequence
summary(d) ==
  <<"Sequence complete: ">> \o
  (IF Len(failedSteps(d)) > 0
   THEN <<"\nFailed steps: ">> \o
        join([k \in 1..Len(failedSteps(d)) |-> stepLine(failedSteps(d)[k])], "; ")
   ELSE <<>>) \o
  <<"\nUsage: ">>

\* the content a handler returns for the parsed 2xx body d
successResults(r, d, diskOk) ==
  {[Return(FALSE, IF r.tool = "run_sequence" THEN summary(d) ELSE SuccessText(r.tool)) EXCEPT
      !.size = reportedSize(r.tool, d),
      !.duration = dur,
      !.file = IF saved(r, diskOk)
               THEN [saved |-> TRUE, path |-> saveTarget(r).path]
               ELSE NoFile,
      !.data = IF r.tool \in {"take_screenshot", "generate_pdf", "create_og_image",
                              "record_video"}
               THEN d.data ELSE "none"] :
     dur \in reportedDurations(r.tool, d)}

\* a variant that writes through a second file
filesAfterMut(r, d, diskOk) ==
  IF saved(r, diskOk)
  THEN writeFileSync(writeFileSync(fs, saveTarget(r).path \o <<".part">>, d.data),
                     saveTarget(r).path, d.data)
  ELSE fs

filesAfter(r, d, diskOk) ==
  IF saved(r, diskOk)
  THEN writeFileSync(fs, saveTarget(r).path, d.data)
  ELSE fs

(* ------------------------- prompts and resource ------------------------ *)
\* the fetch of the api-docs resource handler: no callApi, no headers
resourceRequest ==
  [origin |-> "resource", url |-> BASE_URL \o <<"/llms-full.txt">>, method |-> "GET",
   apiKey |-> Undefined, contentType |-> FALSE]

ResourceFallback ==
  Return(FALSE, <<"Full API docs available at https://pagebolt.dev/docs or https://pagebolt.dev/llms-full.txt">>)

ResourceText == Return(FALSE, <<"llms-full.txt">>)

PromptMessages(name) == Return(FALSE, <<"prompt", name>>)

(* --------------------------- callApi, settled -------------------------- *)
\* fetch rejected, or res.ok is false and the error is thrown: a single attempt
afterFailureMut(r, message) ==
  IF r.requests < 2
  THEN [r EXCEPT !.pc = "fetch", !.requests = @ + 1, !.res = NoRes, !.body = NoBody]
  ELSE Finish(r, Failure(r.tool, message))

afterFailure(r, message) == Finish(r, Failure(r.tool, message))

\* `await fetch(...)` resolved with a response of this status
afterResponse(r, status) ==
  IF Ok(status) THEN [r EXCEPT !.pc = "json", !.res = Response(status)]
  ELSE [r EXCEPT !.pc = "errjson", !.res = Response(status),
                 !.format = Undefined, !.saveTo = NoSaveTo, !.steps = NoSteps]

(* ------------------------------ actions -------------------------------- *)
IsTool(r) == r.tool \in ToolNames

\* a tool handler is called and runs to its first await
Invoke(i) ==
  /\ inv[i].pc = "idle"
  /\ \E tool \in tools : \E p \in ParamsOf(tool) :
       inv' = [inv EXCEPT ![i] = StartTool(@, tool, p)]
  /\ UNCHANGED <<PAGEBOLT_BASE_URL, API_KEY, BASE_URL, cwd, tools, prompts, resources, fs>>

\* a prompt callback: synchronous, builds its messages from the arguments
GetPrompt(i) ==
  /\ inv[i].pc = "idle"
  /\ \E name \in prompts :
       inv' = [inv EXCEPT ![i] = Finish([@ EXCEPT !.tool = name], PromptMessages(name))]
  /\ UNCHANGED <<PAGEBOLT_BASE_URL, API_KEY, BASE_URL, cwd, tools, prompts, resources, fs>>

\* the resource callback up to `await fetch`
ReadResource(i) ==
  /\ inv[i].pc = "idle"
  /\ \E uri \in resources :
       inv' = [inv EXCEPT ![i] = [@ EXCEPT !.tool = uri, !.pc = "fetch",
                                          !.requests = @ + 1,
                                          !.request = resourceRequest]]
  /\ UNCHANGED <<PAGEBOLT_BASE_URL, API_KEY, BASE_URL, cwd, tools, prompts, resources, fs>>

\* fetch rejects (network error)
FetchFails(i) ==
  /\ inv[i].pc = "fetch"
  /\ inv' = [inv EXCEPT ![i] =
               IF IsTool(@) THEN afterFailure(@, <<"fetch failed">>)
               ELSE Finish(@, ResourceFallback)]
  /\ UNCHANGED <<PAGEBOLT_BASE_URL, API_KEY, BASE_URL, cwd, tools, prompts, resources, fs>>

\* fetch resolves with a response
Respond(i) ==
  /\ inv[i].pc = "fetch"
  /\ \E status \in Statuses :
       inv' = [inv EXCEPT ![i] =
                 IF IsTool(@) \/ Ok(status) THEN afterResponse(@, status)
                 ELSE Finish(@, ResourceFallback)]
  /\ UNCHANGED <<PAGEBOLT_BASE_URL, API_KEY, BASE_URL, cwd, tools, prompts, resources, fs>>

\* callApi, res.ok false: `await res.json()` settles, the error is thrown
ErrJson(i) ==
  /\ inv[i].pc = "errjson"
  /\ \E body \in BodiesOf(inv[i].res.status) :
       inv' = [inv EXCEPT ![i] = afterFailure([@ EXCEPT !.body = body],
                                              apiErrorMessage(@.res, body))]
  /\ UNCHANGED <<PAGEBOLT_BASE_URL, API_KEY, BASE_URL, cwd, tools, prompts, resources, fs>>

\* `await res.json()` (res.text() in the resource) rejects on a 2xx response
BodyFails(i) ==
  /\ inv[i].pc = "json"
  /\ inv' = [inv EXCEPT ![i] =
               IF IsTool(@) THEN Finish(@, Failure(@.tool, <<"Unexpected end of JSON input">>))
               ELSE Finish(@, ResourceFallback)]
  /\ UNCHANGED <<PAGEBOLT_BASE_URL, API_KEY, BASE_URL, cwd, tools, prompts, resources, fs>>

\* `await res.json()` resolves on a 2xx response and the handler runs to its return
Json(i) ==
  /\ inv[i].pc = "json"
  /\ IF IsTool(inv[i])
     THEN \E d \in DatasOf(inv[i].tool), diskOk \in BOOLEAN :
            \E result \in successResults(inv[i], d, diskOk) :
              /\ inv' = [inv EXCEPT ![i] =
                           Finish([@ EXCEPT !.data = d, !.diskErr = diskErr(inv[i], diskOk)],
                                  result)]
              /\ fs' = filesAfter(inv[i], d, diskOk)
     ELSE /\ inv' = [inv EXCEPT ![i] = Finish(@, ResourceText)]
          /\ fs' = fs
  /\ UNCHANGED <<PAGEBOLT_BASE_URL, API_KEY, BASE_URL, cwd, tools, prompts, resources>>

(* --------------------------- specification ----------------------------- *)
\* module load: the two constants are read from the environment, and
\* createConfiguredServer registers tools, prompts and resources
Init ==
  /\ PAGEBOLT_BASE_URL \in EnvBaseUrls
  /\ API_KEY \in EnvApiKeys
  /\ BASE_URL = baseUrlOf(PAGEBOLT_BASE_URL)
  /\ cwd \in Cwds
  /\ \E srv \in {createConfiguredServer, createSandboxServer} :
       /\ tools = srv.tools
       /\ prompts = srv.prompts
       /\ resources = srv.resources
  /\ fs = {}
  /\ inv = [i \in Invocations |-> Idle]

Next ==
  \E i \in Invocations :
    \/ Invoke(i)
    \/ GetPrompt(i)
    \/ ReadResource(i)
    \/ FetchFails(i)
    \/ Respond(i)
    \/ ErrJson(i)
    \/ BodyFails(i)
    \/ Json(i)

Spec == Init /\ [][Next]_vars

(* ------------------------------ properties ----------------------------- *)
Done(r) == r.pc = "done"

\* the invocation ended with a non-error returned result
Succeeded(r) == Done(r) /\ r.result.kind = "return" /\ ~r.result.isError

\* the step is the call of `tool` with the parameter object p by invocation i
IsCall(i, tool, p) ==
  /\ inv[i].pc = "idle"
  /\ inv'[i].tool = tool
  /\ inv' = [inv EXCEPT ![i] = StartTool(@, tool, p)]

\* none of the source fields of the tool is set in p
NoSourceSet(tool, p) ==
  /\ p.url = Undefined
  /\ p.html = Undefined
  /\ tool = "take_screenshot" => p.markdown = Undefined

SourceTools == {"take_screenshot", "generate_pdf", "inspect_page"}

\* C1: a take_screenshot call with none of url/html/markdown set, and a
\* generate_pdf or inspect_page call with neither url nor html set, returns a
\* failure result (isError true) and issues no HTTP request.
C1_MissingSourceFails ==
  [][\A i \in Invocations :
       (inv[i].pc = "idle" /\ inv'[i].tool \in SourceTools) =>
         \A p \in ParamsOf(inv'[i].tool) :
           (NoSourceSet(inv'[i].tool, p) /\ IsCall(i, inv'[i].tool, p)) =>
             /\ Done(inv'[i])
             /\ inv'[i].result.kind = "return"
             /\ inv'[i].result.isError
             /\ inv'[i].requests = 0
             /\ inv'[i].request = NoRequest]_vars

C1_Witness ==
  \E i \in Invocations :
    /\ Done(inv[i])
    /\ inv[i].tool = "inspect_page"
    /\ inv[i].result.isError
    /\ inv[i].result.text = <<"Error: Either \"url\" or \"html\" is required.">>
    /\ inv[i].requests = 0
    /\ Truthy(API_KEY)

\* the invocation got a non-2xx response and callApi read its body
GotErrorResponse(r) == Done(r) /\ IsTool(r) /\ r.res.status # 0 /\ ~r.res.ok /\ r.body # NoBody

\* the body is JSON with a non-empty error text
CarriesErrorText(body) ==
  body.parses /\ ~body.isNull /\ body.error # Undefined /\ body.error # ""

\* C2 as stated: for every non-2xx response the failure contains the backend's
\* error text when the body carries one, and the HTTP status text
\* 'HTTP <status> <statusText>' in every other case.
C2_Original ==
  \A i \in Invocations :
    GotErrorResponse(inv[i]) =>
      IF CarriesErrorText(inv[i].body)
      THEN Contains(inv[i].result.text, inv[i].body.error)
      ELSE ContainsSeq(inv[i].result.text,
                       <<"HTTP ", ToString(inv[i].res.status), " ", inv[i].res.statusText>>)

\* C2 amended: for every non-2xx response the failure contains the backend's
\* error text when the JSON body carries a non-empty one; the serialized JSON
\* body when the body is JSON other than null without a non-empty error; and
\* the HTTP status text when the body is not JSON or is JSON null.
C2_Amended ==
  \A i \in Invocations :
    GotErrorResponse(inv[i]) =>
      /\ ContainsSeq(inv[i].result.text, <<"PageBolt API error: ">>)
      /\ IF CarriesErrorText(inv[i].body)
         THEN Contains(inv[i].result.text, inv[i].body.error)
         ELSE IF inv[i].body.parses /\ ~inv[i].body.isNull
         THEN Contains(inv[i].result.text, inv[i].body.text)
         ELSE ContainsSeq(inv[i].result.text,
                          <<"HTTP ", ToString(inv[i].res.status), " ", inv[i].res.statusText>>)

C2_Witness ==
  \E i \in Invocations :
    /\ GotErrorResponse(inv[i])
    /\ inv[i].res.status = 500
    /\ inv[i].body.text = "{\"message\":\"down\"}"
    /\ Contains(inv[i].result.text, "{\"message\":\"down\"}")

\* C3: in generate_pdf and record_video a saveTo path that resolves outside the
\* working directory is rejected before any write: no file is ever written at a
\* location outside the working directory.
C3_NoWriteOutsideCwd ==
  /\ \A f \in fs : InsideCwd(cwd, f.path)
  /\ \A i \in Invocations :
       /\ inv[i].result.file.saved => InsideCwd(cwd, inv[i].result.file.path)
       /\ inv[i].diskErr = "safePath" => ~inv[i].result.file.saved

C3_Witness ==
  \E i \in Invocations :
    /\ Done(inv[i])
    /\ inv[i].tool = "generate_pdf"
    /\ inv[i].diskErr = "safePath"
    /\ fs = {}

MetadataTools == {"take_screenshot", "generate_pdf", "create_og_image", "record_video"}

\* C4 as stated: for take_screenshot, generate_pdf, create_og_image and
\* record_video a successful result reports the backend's size_bytes and
\* duration_ms unmodified.
C4_Original ==
  \A i \in Invocations :
    (Succeeded(inv[i]) /\ inv[i].tool \in MetadataTools) =>
      /\ inv[i].result.size = [unit |-> "bytes", value |-> inv[i].data.size_bytes]
      /\ inv[i].result.duration = [unit |-> "ms", value |-> inv[i].data.duration_ms]

Abs(x) == IF x < 0 THEN -x ELSE x

\* v / 10 is a decimal with one digit nearest to num / den
IsNearestTenth(v, num, den) ==
  \A w \in 0..((10 * num) \div den + 1) :
    Abs(10 * num - v * den) <= Abs(10 * num - w * den)

\* C4 amended: for take_screenshot, generate_pdf and create_og_image a
\* successful result reports the backend's size_bytes and duration_ms
\* unmodified; record_video reports size_bytes / 1024 in KB and
\* duration_ms / 1000 in seconds, each rounded to one decimal.
C4_Amended ==
  \A i \in Invocations :
    (Succeeded(inv[i]) /\ inv[i].tool \in MetadataTools) =>
      IF inv[i].tool = "record_video"
      THEN /\ inv[i].result.size.unit = "KB/10"
           /\ IsNearestTenth(inv[i].result.size.value, inv[i].data.size_bytes, 1024)
           /\ inv[i].result.duration.unit = "s/10"
           /\ IsNearestTenth(inv[i].result.duration.value, inv[i].data.duration_ms, 1000)
      ELSE /\ inv[i].result.size = [unit |-> "bytes", value |-> inv[i].data.size_bytes]
           /\ inv[i].result.duration = [unit |-> "ms", value |-> inv[i].data.duration_ms]

C4_Witness ==
  \E i \in Invocations :
    /\ Succeeded(inv[i])
    /\ inv[i].tool = "record_video"
    /\ inv[i].data.size_bytes = 1536
    /\ inv[i].result.size.value = 15
    /\ inv[i].result.duration.value = 12

\* the backend call of the invocation failed: fetch rejected or answered non-2xx
BackendCallFailed(r) == Done(r) /\ IsTool(r) /\ r.requests > 0 /\ ~r.res.ok

\* C5: all eight tools signal a failed backend call in the same way: the handler
\* returns a failure result (isError true) whose text contains the extracted
\* error message, and raises no exception.
C5_UniformFailure ==
  \A i \in Invocations :
    BackendCallFailed(inv[i]) =>
      /\ inv[i].result.kind = "return"
      /\ inv[i].result.isError
      /\ inv[i].body # NoBody =>
           ContainsSeq(inv[i].result.text, errorMsg(inv[i].res, inv[i].body))

\* C6: every tool invocation issues at most one HTTP request; after a failed
\* request (non-2xx response or network error) it issues no further request.
C6_SingleRequest ==
  \A i \in Invocations : IsTool(inv[i]) => inv[i].requests <= 1

C6_Witness ==
  \E i \in Invocations :
    /\ BackendCallFailed(inv[i])
    /\ inv[i].tool = "check_usage"
    /\ inv[i].requests = 1
    /\ inv[i].res.status = 404

\* the file the result of the invocation names, as it was written
OwnFile(r) == [path |-> r.result.file.path, data |-> r.result.data]

\* C7 as stated: any two invocations, overlapping ones included, do not
\* interact: the file each left on disk is what it is when the invocation runs
\* alone, that is, the file its result names holds its own payload.
C7_Original ==
  \A i \in Invocations :
    (Done(inv[i]) /\ inv[i].result.file.saved) => OwnFile(inv[i]) \in fs

\* C7 amended: a step of one invocation leaves every other invocation's state
\* and result untouched and changes at most the file at its own output path;
\* when generate_pdf or record_video returns a result that names a saved path,
\* that file holds exactly its payload.  Invocations that resolve to the same
\* output path (both leaving saveTo at its default, for instance) replace each
\* other's file, the last write winning.
C7_Amended ==
  [][\A i \in Invocations :
       inv'[i] # inv[i] =>
         /\ \A j \in Invocations \ {i} : inv'[j] = inv[j]
         /\ IF Done(inv'[i]) /\ inv'[i].result.file.saved
            THEN /\ \A f \in fs' : f.path = inv'[i].result.file.path => f = OwnFile(inv'[i])
                 /\ OwnFile(inv'[i]) \in fs'
                 /\ \A f \in fs : f.path # inv'[i].result.file.path => f \in fs'
                 /\ \A f \in fs' : f.path # inv'[i].result.file.path => f \in fs
            ELSE fs' = fs]_vars

C7_Witness ==
  \E i, j \in Invocations :
    /\ i # j
    /\ Succeeded(inv[i]) /\ inv[i].result.file.saved
    /\ Succeeded(inv[j]) /\ inv[j].result.file.saved
    /\ inv[i].result.file.path = inv[j].result.file.path
    /\ inv[i].result.data # inv[j].result.data
    /\ OwnFile(inv[j]) \in fs

\* C8: no tool, prompt or resource invocation changes state that a later
\* invocation reads: the API key, the base URL and the registered tool, prompt
\* and resource tables never change, and the only lasting effect of an
\* invocation is the output file written by generate_pdf or record_video.
C8_NoSharedStateChange ==
  [][/\ API_KEY' = API_KEY
     /\ BASE_URL' = BASE_URL
     /\ cwd' = cwd
     /\ tools' = tools
     /\ prompts' = prompts
     /\ resources' = resources
     /\ fs' # fs =>
          \E i \in Invocations :
            /\ inv[i].tool \in {"generate_pdf", "record_video"}
            /\ inv[i].pc = "json"
            /\ Succeeded(inv'[i])
            /\ fs' \ fs = {OwnFile(inv'[i])}]_vars

C8_Witness ==
  /\ \A i \in Invocations : Done(inv[i])
  /\ \E i \in Invocations : inv[i].tool = "take_screenshot" /\ Succeeded(inv[i])
  /\ \E i \in Invocations : inv[i].tool = "record_video" /\ inv[i].result.file.saved
  /\ Cardinality(fs) = 1

\* C9: every HTTP request a tool issues carries the x-api-key header set to the
\* configured API key.
C9_ApiKeyHeader ==
  \A i \in Invocations :
    inv[i].request.origin = "tool" => inv[i].request.apiKey = API_KEY

C9_Witness ==
  \E i \in Invocations :
    /\ inv[i].pc = "fetch"
    /\ inv[i].tool = "create_og_image"
    /\ inv[i].request.apiKey = "pf_live_k"
    /\ inv[i].request.url = <<"https://api.test", "/", "/api/v1/og-image">>

\* p conforms to the schema and passes the presence check of the tool
PassesLocalValidation(tool, p) ==
  /\ schemaAccepts(tool, p)
  /\ tool = "take_screenshot" => Truthy(p.url) \/ Truthy(p.html) \/ Truthy(p.markdown)
  /\ tool \in {"generate_pdf", "inspect_page"} => Truthy(p.url) \/ Truthy(p.html)
  /\ tool \in {"run_sequence", "record_video"} => p.steps.given /\ p.steps.list # <<>>

\* C10: when PAGEBOLT_API_KEY is not set the server still has all its tools
\* registered, and every tool call that passes local validation fails with the
\* 'PAGEBOLT_API_KEY environment variable is required' error without issuing an
\* HTTP request.
C10_MissingKeyFails ==
  /\ [](API_KEY = Undefined => tools = ToolNames)
  /\ [][API_KEY = Undefined =>
          \A i \in Invocations :
            (inv[i].pc = "idle" /\ inv'[i].tool \in ToolNames) =>
              \A p \in ParamsOf(inv'[i].tool) :
                (PassesLocalValidation(inv'[i].tool, p) /\ IsCall(i, inv'[i].tool, p)) =>
                  /\ Done(inv'[i])
                  /\ inv'[i].result.kind = "throw" \/ inv'[i].result.isError
                  /\ ContainsSeq(inv'[i].result.text,
                                 <<"PAGEBOLT_API_KEY environment variable is required. ">>)
                  /\ inv'[i].requests = 0
                  /\ inv'[i].request = NoRequest]_vars

C10_Witness ==
  \E i \in Invocations :
    /\ API_KEY = Undefined
    /\ Done(inv[i])
    /\ inv[i].tool = "list_devices"
    /\ inv[i].result.kind = "throw"
    /\ inv[i].result.text = KeyRequiredMsg
    /\ inv[i].requests = 0

SavingTools == {"generate_pdf", "record_video"}

\* C11: whenever generate_pdf or record_video returns a non-error result, the
\* payload has been written to disk and the result text names the path of the
\* written file.
C11_SavedWhenSuccessful ==
  \A i \in Invocations :
    (Succeeded(inv[i]) /\ inv[i].tool \in SavingTools) =>
      /\ inv[i].result.file.saved
      /\ \E f \in fs : f.path = inv[i].result.file.path

\* the actions of a steps array that produce an output
OutputActions == {"screenshot", "pdf"}

HasOutputStep(steps) == \E k \in 1..Len(steps.list) : steps.list[k] \in OutputActions

\* C12: a run_sequence invocation whose steps contain no step with action
\* screenshot or pdf does not succeed: it yields a failure result.
C12_NeedsOutputStep ==
  [][\A i \in Invocations :
       (/\ inv[i].tool = "run_sequence" /\ ~Done(inv[i])
        /\ ~HasOutputStep(inv[i].steps) /\ Done(inv'[i])) =>
         /\ inv'[i].result.kind = "return"
         /\ inv'[i].result.isError]_vars

\* a call on which the schema raises exactly these issues ended without a request
RejectedWith(r, tool, issues) ==
  /\ Done(r)
  /\ r.tool = tool
  /\ r.result.kind = "rejected"
  /\ r.result.text = <<"Invalid arguments for tool ", tool, ": ">> \o issues
  /\ r.requests = 0
  /\ r.request = NoRequest

\* C13: a record_video invocation containing a step whose action is screenshot
\* or pdf is rejected and never reaches the backend.
C13_VideoRejectsOutputSteps ==
  /\ [](\A i \in Invocations :
          (inv[i].tool = "record_video" /\ inv[i].requests > 0 /\ ~Done(inv[i])) =>
            ~HasOutputStep(inv[i].steps))
  /\ [][\A i \in Invocations :
          (inv[i].pc = "idle" /\ inv'[i].tool = "record_video") =>
            \A p \in ParamsOf("record_video") :
              (HasOutputStep(p.steps) /\ IsCall(i, "record_video", p)) =>
                /\ Done(inv'[i])
                /\ inv'[i].result.kind = "rejected"
                /\ inv'[i].requests = 0
                /\ inv'[i].request = NoRequest]_vars

C13_Witness ==
  \E i \in Invocations :
    /\ RejectedWith(inv[i], "record_video", <<"steps.action: invalid enum value">>)
    /\ Truthy(API_KEY)

\* the endpoint of each tool, as the claim lists them
EndpointTable ==
  [take_screenshot |-> "/api/v1/screenshot", generate_pdf |-> "/api/v1/pdf",
   create_og_image |-> "/api/v1/og-image", run_sequence |-> "/api/v1/sequence",
   record_video |-> "/api/v1/video", inspect_page |-> "/api/v1/inspect",
   list_devices |-> "/api/v1/devices", check_usage |-> "/api/v1/usage"]

\* PAGEBOLT_BASE_URL with one trailing slash removed, https://pagebolt.dev when unset
StartupBase ==
  IF PAGEBOLT_BASE_URL = <<>> THEN <<"https://pagebolt.dev">>
  ELSE IF PAGEBOLT_BASE_URL[Len(PAGEBOLT_BASE_URL)] = "/"
  THEN SubSeq(PAGEBOLT_BASE_URL, 1, Len(PAGEBOLT_BASE_URL) - 1)
  ELSE PAGEBOLT_BASE_URL

\* C14: the endpoint a tool calls is fixed by the tool name and never depends on
\* the invocation's parameters, and every request URL is the base URL fixed at
\* start-up (PAGEBOLT_BASE_URL with one trailing slash removed, or
\* https://pagebolt.dev when unset) followed by that endpoint.
C14_FixedEndpoint ==
  \A i \in Invocations :
    inv[i].request.origin = "tool" =>
      /\ inv[i].tool \in DOMAIN EndpointTable
      /\ inv[i].request.url = StartupBase \o <<EndpointTable[inv[i].tool]>>

C14_Witness ==
  \E i \in Invocations :
    /\ inv[i].pc = "fetch"
    /\ inv[i].tool = "record_video"
    /\ PAGEBOLT_BASE_URL = <<"https://api.test", "/", "/">>
    /\ BASE_URL = <<"https://api.test", "/">>
    /\ inv[i].request.url = <<"https://api.test", "/", "/api/v1/video">>

\* the handler of invocation i takes the step after its 2xx body was read
ReadsData(i) == inv[i].pc = "json" /\ IsTool(inv[i]) /\ Succeeded(inv'[i])

\* output.pdf, or recording.<format> with the format defaulting to mp4
DefaultFileName(r) ==
  IF r.tool = "generate_pdf" THEN "output.pdf"
  ELSE "recording." \o (IF r.format \in {Undefined, ""} THEN "mp4" ELSE r.format)

\* C15: when saveTo is absent or empty, generate_pdf writes to output.pdf and
\* record_video to recording.<format> (format defaulting to mp4) in the current
\* working directory, and this default path is never rejected by the path check.
C15_DefaultPath ==
  [][\A i \in Invocations :
       (/\ ReadsData(i)
        /\ inv[i].tool \in SavingTools
        /\ ~inv[i].saveTo.given \/ inv[i].saveTo.path = <<>>) =>
         /\ inv'[i].diskErr # "safePath"
         /\ \A f \in fs' \ fs : f.path = cwd \o <<DefaultFileName(inv[i])>>
         /\ inv'[i].diskErr = "none" =>
              /\ inv'[i].result.file = [saved |-> TRUE,
                                        path |-> cwd \o <<DefaultFileName(inv[i])>>]
              /\ [path |-> cwd \o <<DefaultFileName(inv[i])>>,
                  data |-> inv'[i].data.data] \in fs']_vars

C15_Witness ==
  \E i \in Invocations :
    /\ Succeeded(inv[i])
    /\ inv[i].tool = "record_video"
    /\ inv[i].result.file = [saved |-> TRUE, path |-> <<"/", "w", "recording.gif">>]
    /\ [path |-> <<"/", "w", "recording.gif">>, data |-> inv[i].data.data] \in fs

\* C16: a run_sequence invocation reaches the backend only if its steps array
\* has between 1 and 20 elements, and a record_video invocation only if its
\* steps array has between 1 and 50 elements; otherwise no HTTP request is
\* issued.
C16_StepsLength ==
  [][\A i \in Invocations :
       inv'[i].requests > inv[i].requests =>
         /\ inv'[i].tool = "run_sequence" =>
              /\ inv'[i].steps.given
              /\ Len(inv'[i].steps.list) \in 1..20
         /\ inv'[i].tool = "record_video" =>
              /\ inv'[i].steps.given
              /\ Len(inv'[i].steps.list) \in 1..50]_vars

C16_Witness ==
  \E i, j \in Invocations :
    /\ inv[i].pc = "fetch"
    /\ inv[i].tool = "run_sequence"
    /\ Len(inv[i].steps.list) = 20
    /\ RejectedWith(inv[j], "run_sequence", <<"steps: too big">>)

\* C17: every server returned by createConfiguredServer / createSandboxServer
\* exposes exactly eight tools, three prompts and one resource, whether or not
\* an API key is configured.
C17_Registrations ==
  /\ tools = {"take_screenshot", "generate_pdf", "create_og_image", "run_sequence",
              "record_video", "inspect_page", "list_devices", "check_usage"}
  /\ Cardinality(tools) = 8
  /\ prompts = {"capture-page", "record-demo", "audit-page"}
  /\ Cardinality(prompts) = 3
  /\ resources = {"pagebolt://api-docs"}
  /\ Cardinality(resources) = 1

C17_Witness ==
  /\ API_KEY = Undefined
  /\ \E i, j \in Invocations :
       /\ Done(inv[i]) /\ inv[i].tool = "check_usage" /\ inv[i].result.kind = "throw"
       /\ Done(inv[j]) /\ inv[j].tool = "audit-page"

\* the backend answered 2xx and the invocation ended
AnsweredOk(r) == Done(r) /\ IsTool(r) /\ r.res.ok

\* ... and `await res.json()` gave the response envelope
GotData(r) == AnsweredOk(r) /\ r.data # NoData

\* the file note of the result and the embedded blob, as the claim states them
BestEffortResult(r) ==
  /\ Succeeded(r)
  /\ r.result.data = r.data.data
  /\ r.result.file.saved <=> r.diskErr = "none"
  /\ r.result.file.saved =>
       /\ r.result.file.path # <<>>
       /\ \E f \in fs : f.path = r.result.file.path
  /\ ~r.result.file.saved => r.result.file = NoFile

\* C18 as stated: in generate_pdf and record_video, once the backend answered
\* 2xx the result is non-error and contains the payload as an embedded blob; the
\* result text names a file path if and only if the write to that path
\* completed, and otherwise states that the file was not saved.
C18_Original ==
  \A i \in Invocations :
    (AnsweredOk(inv[i]) /\ inv[i].tool \in SavingTools) => BestEffortResult(inv[i])

\* C18 amended: in generate_pdf and record_video, once the backend answered 2xx
\* with a body that parses as the JSON envelope the handler reads, a rejected
\* saveTo path or a failing disk write never turns the result into an error:
\* the result is non-error and contains the payload as an embedded blob; the
\* result text names a file path if and only if the write to that path
\* completed, and otherwise states that the file was not saved.  A 2xx response
\* whose body cannot be read as JSON ends in a failure.
C18_Amended ==
  \A i \in Invocations :
    (AnsweredOk(inv[i]) /\ inv[i].tool \in SavingTools) =>
      IF GotData(inv[i]) THEN BestEffortResult(inv[i])
      ELSE /\ ~Succeeded(inv[i])
           /\ inv[i].diskErr = "none"
           /\ inv[i].result.file = NoFile

C18_Witness ==
  \E i, j \in Invocations :
    /\ i # j
    /\ GotData(inv[i]) /\ inv[i].tool = "generate_pdf" /\ inv[i].diskErr = "safePath"
    /\ Succeeded(inv[i]) /\ inv[i].result.data = "Qg=="
    /\ GotData(inv[j]) /\ inv[j].tool = "record_video" /\ inv[j].diskErr = "write"
    /\ Succeeded(inv[j]) /\ inv[j].result.file = NoFile

\* the paths at which the two file systems differ
ChangedPaths(before, after) ==
  {f.path : f \in (before \ after) \cup (after \ before)}

\* C19: in generate_pdf and record_video no file is created or overwritten
\* unless the backend call returned a 2xx response: when local validation
\* fails, the API key is missing, or the backend call fails, the file system is
\* left unchanged; and a successful invocation writes at most one file.
C19_WriteOnlyAfterOk ==
  [][\A i \in Invocations :
       inv'[i] # inv[i] =>
         /\ Cardinality(ChangedPaths(fs, fs')) <= 1
         /\ fs' # fs =>
              /\ inv[i].tool \in SavingTools
              /\ inv[i].requests = 1
              /\ inv[i].res.status \in 200..299
              /\ Succeeded(inv'[i])]_vars

C19_Witness ==
  \E i, j \in Invocations :
    /\ Done(inv[i]) /\ inv[i].tool = "generate_pdf"
    /\ inv[i].res.status = 500 /\ inv[i].result.kind = "throw"
    /\ Succeeded(inv[j]) /\ inv[j].tool = "generate_pdf" /\ inv[j].result.file.saved
    /\ Cardinality(fs) = 1

\* the positions of the step results with status 'error'
ErrorPositions(d) == {k \in 1..Len(d.step_results) : d.step_results[k].status = "error"}

\* the j-th of them in the backend's order
NthError(d, j) ==
  CHOOSE k \in ErrorPositions(d) : Cardinality({m \in ErrorPositions(d) : m < k}) = j - 1

\* the lines that follow 'Failed steps: ' in the summary, without the separators
ListedSteps(text) ==
  IF ~Contains(text, "\nFailed steps: ") THEN <<>>
  ELSE LET from == CHOOSE k \in 1..Len(text) : text[k] = "\nFailed steps: "
           to == CHOOSE k \in 1..Len(text) : text[k] = "\nUsage: "
       IN SelectSeq(SubSeq(text, from + 1, to - 1), LAMBDA part : part # "; ")

\* the summary lists exactly the failed steps, in the backend's order
SummaryOfFailures(r) ==
  /\ Succeeded(r)
  /\ Contains(r.result.text, "\nFailed steps: ") <=> ErrorPositions(r.data) # {}
  /\ Len(ListedSteps(r.result.text)) = Cardinality(ErrorPositions(r.data))
  /\ \A j \in 1..Len(ListedSteps(r.result.text)) :
       LET sr == r.data.step_results[NthError(r.data, j)]
       IN ListedSteps(r.result.text)[j] =
            "Step " \o ToString(sr.step_index) \o " (" \o sr.action \o "): " \o sr.error

\* C20 as stated: when the backend answers run_sequence with a 2xx response, the
\* result is non-error even if individual steps failed, and its summary
\* contains a 'Failed steps' part if and only if at least one step result has
\* status 'error', listing exactly those steps in the backend's order.
C20_Original ==
  \A i \in Invocations :
    (AnsweredOk(inv[i]) /\ inv[i].tool = "run_sequence") => SummaryOfFailures(inv[i])

\* C20 amended: when the backend answers run_sequence with a 2xx response whose
\* body parses as the JSON envelope the handler reads, the result is non-error
\* even if individual steps failed, and its summary contains a 'Failed steps'
\* part if and only if at least one step result has status 'error', listing
\* exactly those steps in the backend's order.  A 2xx response whose body
\* cannot be read as JSON yields the failure result 'Sequence error: ...'.
C20_Amended ==
  \A i \in Invocations :
    (AnsweredOk(inv[i]) /\ inv[i].tool = "run_sequence") =>
      IF GotData(inv[i]) THEN SummaryOfFailures(inv[i])
      ELSE /\ inv[i].result.kind = "return"
           /\ inv[i].result.isError
           /\ Contains(inv[i].result.text, "Sequence error: ")

C20_Witness ==
  \E i \in Invocations :
    /\ GotData(inv[i])
    /\ inv[i].tool = "run_sequence"
    /\ Len(inv[i].data.step_results) = 3
    /\ inv[i].data.step_results[1].step_index = 2
    /\ inv[i].data.step_results[2].status = "success"
    /\ inv[i].result.text =
         <<"Sequence complete: ", "\nFailed steps: ", "Step 2 (click): boom", "; ",
           "Step 0 (click): boom", "\nUsage: ">>

====
